---- MODULE Spec2Model ----
(***************************************************************************)
(* A model of the Docker Engine client library: ImageModule and            *)
(* ContainerModule.  Every exported function builds a URL, appends query   *)
(* parameters, issues one axios request and maps the outcome through       *)
(* .then(...).catch(...).  The model keeps, per call, the arguments, the   *)
(* requests handed to axios and the three promises of the chain.           *)
(***************************************************************************)
EXTENDS Integers, Sequences, FiniteSets, TLC

(***************************************************************************)
(* Bounds of the model.                                                    *)
(***************************************************************************)
\* Number of call slots (calls that can be outstanding at once).
MaxCalls == 2
\* Largest number a numeric argument takes (0 is always included).
MaxNum == 5
\* Largest number of build options supplied in one ImageModule.build call.
MaxBuildOpts == 1
\* Largest number of optional arguments supplied in one ImageModule.create call.
MaxCreateOpts == 2
\* Largest number of optional arguments supplied in one ContainerModule.logs call.
MaxLogsOpts == 2
\* Largest number of options supplied in a call whose promise chain is followed.
MaxChainOpts == 1

CallIds == 1..MaxCalls

(***************************************************************************)
(* JavaScript values, as far as the library handles them.  One record      *)
(* shape for all of them: t is the type tag, the other fields hold the     *)
(* payload of that type and a fixed filler otherwise.                      *)
(*   b: boolean   n: number   s: string   a: string[]                      *)
(*   m: { [key]: string[] } as a list of entries in insertion order        *)
(*   d: { [key]: string }   as a list of entries in insertion order        *)
(*   y: Buffer, its bytes                                                  *)
(***************************************************************************)
Blank == [t |-> "undefined", b |-> FALSE, n |-> 0, s |-> "", a |-> <<>>, m |-> <<>>, d |-> <<>>, y |-> <<>>]
undefined == Blank
Bool(x) == [Blank EXCEPT !.t = "boolean", !.b = x]
Num(x) == [Blank EXCEPT !.t = "number", !.n = x]
Str(x) == [Blank EXCEPT !.t = "string", !.s = x]
Arr(x) == [Blank EXCEPT !.t = "array", !.a = x]
Map(x) == [Blank EXCEPT !.t = "map", !.m = x]
Dict(x) == [Blank EXCEPT !.t = "dict", !.d = x]
Buf(x) == [Blank EXCEPT !.t = "buffer", !.y = x]

\* JavaScript truthiness, the test of every `if (arg)` of the source:
\* undefined, false, 0 and "" are falsy; objects, arrays and buffers are truthy.
Truthy(v) ==
  CASE v.t = "undefined" -> FALSE
    [] v.t = "boolean" -> v.b
    [] v.t = "number" -> v.n # 0
    [] v.t = "string" -> v.s # ""
    [] OTHER -> TRUE

(***************************************************************************)
(* Strings.  A string is a TLA+ string; Len, SubSeq and \o act on it.      *)
(***************************************************************************)
CharAt(s, i) == SubSeq(s, i, i)

RECURSIVE IndexFrom(_, _, _)
\* The least j >= i with CharAt(s, j) = c, or 0.
IndexFrom(s, c, i) ==
  IF i > Len(s) THEN 0
  ELSE IF CharAt(s, i) = c THEN i
  ELSE IndexFrom(s, c, i + 1)

Digits == "0123456789"

RECURSIVE NatToString(_)
NatToString(n) ==
  IF n < 10 THEN CharAt(Digits, n + 1)
  ELSE NatToString(n \div 10) \o CharAt(Digits, (n % 10) + 1)

\* Number.prototype.toString() on an integer.
NumberToString(n) == IF n < 0 THEN "-" \o NatToString(0 - n) ELSE NatToString(n)

\* Boolean.prototype.toString().
BooleanToString(b) == IF b THEN "true" ELSE "false"

\* x.toString() as the source applies it to boolean and number arguments.
toString(v) ==
  CASE v.t = "boolean" -> BooleanToString(v.b)
    [] v.t = "number" -> NumberToString(v.n)
    [] OTHER -> v.s

(***************************************************************************)
(* JSON.stringify on the shapes the source passes to it: compact output,   *)
(* keys in insertion order, strings quoted with " and \ escaped.           *)
(***************************************************************************)
RECURSIVE JSONEscape(_, _)
JSONEscape(s, i) ==
  IF i > Len(s) THEN ""
  ELSE LET c == CharAt(s, i)
       IN (IF c = "\"" \/ c = "\\" THEN "\\" \o c ELSE c) \o JSONEscape(s, i + 1)

JSONString(s) == "\"" \o JSONEscape(s, 1) \o "\""

RECURSIVE JSONStrings(_, _)
\* The elements of a string list from index i on, comma separated.
JSONStrings(l, i) ==
  IF i > Len(l) THEN ""
  ELSE (IF i > 1 THEN "," ELSE "") \o JSONString(l[i]) \o JSONStrings(l, i + 1)

JSONArray(l) == "[" \o JSONStrings(l, 1) \o "]"

RECURSIVE JSONMapEntries(_, _)
JSONMapEntries(m, i) ==
  IF i > Len(m) THEN ""
  ELSE (IF i > 1 THEN "," ELSE "") \o JSONString(m[i].k) \o ":" \o JSONArray(m[i].v)
       \o JSONMapEntries(m, i + 1)

RECURSIVE JSONDictEntries(_, _)
JSONDictEntries(d, i) ==
  IF i > Len(d) THEN ""
  ELSE (IF i > 1 THEN "," ELSE "") \o JSONString(d[i].k) \o ":" \o JSONString(d[i].v)
       \o JSONDictEntries(d, i + 1)

JSONStringify(v) ==
  CASE v.t = "array" -> JSONArray(v.a)
    [] v.t = "map" -> "{" \o JSONMapEntries(v.m, 1) \o "}"
    [] v.t = "dict" -> "{" \o JSONDictEntries(v.d, 1) \o "}"
    [] v.t = "string" -> JSONString(v.s)
    [] v.t = "boolean" -> BooleanToString(v.b)
    [] v.t = "number" -> NumberToString(v.n)
    [] OTHER -> "undefined"

(***************************************************************************)
(* URL and URLSearchParams.  A URL object is the string it was built from  *)
(* (origin and path; the source never puts a query or fragment there) and  *)
(* the list of its search parameters; toString serialises the list as      *)
(* application/x-www-form-urlencoded.                                      *)
(***************************************************************************)
\* The printable ASCII characters in code order, in two runs: code 32 (space)
\* to 95 (_), and code 97 (a) to 126 (~).  Code 96 is not a character of any
\* string of the model.
AsciiLow == " !\"#$%&'()*+,-./0123456789:;<=>?@ABCDEFGHIJKLMNOPQRSTUVWXYZ[\\]^_"
AsciiHigh == "abcdefghijklmnopqrstuvwxyz{|}~"

CharCode(c) ==
  IF IndexFrom(AsciiLow, c, 1) # 0 THEN 31 + IndexFrom(AsciiLow, c, 1)
  ELSE 96 + IndexFrom(AsciiHigh, c, 1)

HexDigits == "0123456789ABCDEF"

PercentEncodeChar(c) ==
  "%" \o CharAt(HexDigits, (CharCode(c) \div 16) + 1) \o CharAt(HexDigits, (CharCode(c) % 16) + 1)

\* Characters the urlencoded serialiser leaves as they are.
UrlencodedSafe == "*-._0123456789ABCDEFGHIJKLMNOPQRSTUVWXYZabcdefghijklmnopqrstuvwxyz"

UrlencodedSafeChars == {CharAt(UrlencodedSafe, i) : i \in 1..Len(UrlencodedSafe)}

RECURSIVE UrlencodedFrom(_, _)
UrlencodedFrom(s, i) ==
  IF i > Len(s) THEN ""
  ELSE LET c == CharAt(s, i)
       IN (IF c \in UrlencodedSafeChars THEN c
           ELSE IF c = " " THEN "+"
           ELSE PercentEncodeChar(c)) \o UrlencodedFrom(s, i + 1)

Urlencoded(s) == UrlencodedFrom(s, 1)

\* new URL(href): the source passes an absolute URL without a query.
NewURL(href) == [href |-> href, searchParams |-> <<>>]

\* endpoint.searchParams.append(key, value)
append(endpoint, key, value) ==
  [endpoint EXCEPT !.searchParams = Append(@, [k |-> key, v |-> value])]

RECURSIVE SearchParamsToString(_, _)
SearchParamsToString(p, i) ==
  IF i > Len(p) THEN ""
  ELSE (IF i > 1 THEN "&" ELSE "") \o Urlencoded(p[i].k) \o "=" \o Urlencoded(p[i].v)
       \o SearchParamsToString(p, i + 1)

\* endpoint.toString()
URLToString(endpoint) ==
  IF endpoint.searchParams = <<>> THEN endpoint.href
  ELSE endpoint.href \o "?" \o SearchParamsToString(endpoint.searchParams, 1)

\* An append that does not look at the condition.
appendAlways(endpoint, cond, key, value) == append(endpoint, key, value)

\* if (cond) endpoint.searchParams.append(key, value)
appendIf(endpoint, cond, key, value) == IF cond THEN append(endpoint, key, value) ELSE endpoint

RECURSIVE appendEach(_, _, _, _)
\* list.forEach(x => endpoint.searchParams.append(key, x)), from index i on
appendEach(endpoint, key, list, i) ==
  IF i > Len(list) THEN endpoint
  ELSE appendEach(append(endpoint, key, list[i]), key, list, i + 1)

(***************************************************************************)
(* Buffers.  Buffer.from(string) gives the bytes of an ASCII string;       *)
(* buffer.toString('base64') encodes them; buffer.toString() decodes them  *)
(* as UTF-8, every byte that is part of no valid sequence becoming U+FFFD. *)
(* A decoded text is the list of its code points.                          *)
(***************************************************************************)
RECURSIVE BufferFrom(_, _)
BufferFrom(s, i) == IF i > Len(s) THEN <<>> ELSE <<CharCode(CharAt(s, i))>> \o BufferFrom(s, i + 1)

Base64Alphabet == "ABCDEFGHIJKLMNOPQRSTUVWXYZabcdefghijklmnopqrstuvwxyz0123456789+/"

Base64Char(n) == CharAt(Base64Alphabet, n + 1)

RECURSIVE Base64From(_, _)
Base64From(y, i) ==
  IF i > Len(y) THEN ""
  ELSE IF i = Len(y) THEN
    Base64Char(y[i] \div 4) \o Base64Char((y[i] % 4) * 16) \o "=="
  ELSE IF i + 1 = Len(y) THEN
    Base64Char(y[i] \div 4) \o Base64Char((y[i] % 4) * 16 + y[i + 1] \div 16)
      \o Base64Char((y[i + 1] % 16) * 4) \o "="
  ELSE
    Base64Char(y[i] \div 4) \o Base64Char((y[i] % 4) * 16 + y[i + 1] \div 16)
      \o Base64Char((y[i + 1] % 16) * 4 + y[i + 2] \div 64) \o Base64Char(y[i + 2] % 64)
      \o Base64From(y, i + 3)

\* Buffer.from(JSON.stringify(v)).toString('base64')
Base64OfJSON(v) == Base64From(BufferFrom(JSONStringify(v), 1), 1)

ReplacementChar == 65533

RECURSIVE Utf8Decode(_, _)
\* The code points of bytes y from index i on.  One- and two-byte sequences
\* are decoded; any other byte is replaced, one U+FFFD per byte.
Utf8Decode(y, i) ==
  IF i > Len(y) THEN <<>>
  ELSE IF y[i] < 128 THEN <<y[i]>> \o Utf8Decode(y, i + 1)
  ELSE IF y[i] >= 194 /\ y[i] <= 223 /\ i < Len(y) /\ y[i + 1] >= 128 /\ y[i + 1] <= 191
    THEN <<(y[i] - 192) * 64 + (y[i + 1] - 128)>> \o Utf8Decode(y, i + 2)
  ELSE <<ReplacementChar>> \o Utf8Decode(y, i + 1)

\* binary.toString(), a text
BufferToString(v) == [Blank EXCEPT !.t = "text", !.y = Utf8Decode(v.y, 1)]

\* binary.byteLength
byteLength(v) == Len(v.y)

RECURSIVE Utf8Encode(_, _)
\* The bytes a text goes out as when it is a request body: the UTF-8 encoding
\* of its code points p from index i on.
Utf8Encode(p, i) ==
  IF i > Len(p) THEN <<>>
  ELSE (IF p[i] < 128 THEN <<p[i]>>
        ELSE IF p[i] < 2048 THEN <<192 + (p[i] \div 64), 128 + (p[i] % 64)>>
        ELSE <<224 + (p[i] \div 4096), 128 + ((p[i] \div 64) % 64), 128 + (p[i] % 64)>>)
       \o Utf8Encode(p, i + 1)

(***************************************************************************)
(* The endpoint each function builds: url is the daemon's URL, a the       *)
(* record of the function's other arguments under their source names.      *)
(***************************************************************************)
ImageModule_list_endpoint(url, a) ==
  LET e0 == NewURL(url \o "/images/json")
      e1 == appendIf(e0, Truthy(a.all), "all", toString(a.all))
      e2 == appendIf(e1, Truthy(a.filters), "filters", JSONStringify(a.filters))
      e3 == appendIf(e2, Truthy(a.sharedSize), "sharedSize", toString(a.sharedSize))
  IN appendIf(e3, Truthy(a.digests), "digests", toString(a.digests))

ImageModule_build_endpoint(url, a) ==
  LET e0 == NewURL(url \o "/build")
      e1 == appendIf(e0, Truthy(a.dockerfile), "dockerfile", a.dockerfile.s)
      e2 == IF Truthy(a.tags) THEN appendEach(e1, "t", a.tags.a, 1) ELSE e1
      e3 == appendIf(e2, Truthy(a.extraHosts), "extrahosts", a.extraHosts.s)
      e4 == appendIf(e3, Truthy(a.remote), "remote", a.remote.s)
      e5 == appendIf(e4, Truthy(a.quiet), "q", toString(a.quiet))
      e6 == appendIf(e5, Truthy(a.noCache), "nocache", toString(a.noCache))
      e7 == appendIf(e6, Truthy(a.cacheFrom), "cachefrom", a.cacheFrom.s)
      e8 == appendIf(e7, Truthy(a.pull), "pull", a.pull.s)
      e9 == appendIf(e8, Truthy(a.removeIntermediate), "rm", toString(a.removeIntermediate))
      e10 == appendIf(e9, Truthy(a.forceRemoveIntermediate), "forcerm", toString(a.forceRemoveIntermediate))
      e11 == appendIf(e10, Truthy(a.memoryLimit), "memory", toString(a.memoryLimit))
      e12 == appendIf(e11, Truthy(a.memorySwap), "memswap", toString(a.memorySwap))
      e13 == appendIf(e12, Truthy(a.cpuShares), "cpushares", toString(a.cpuShares))
      e14 == appendIf(e13, Truthy(a.cpuSetCpus), "cpusetcpus", a.cpuSetCpus.s)
      e15 == appendIf(e14, Truthy(a.cpuPeriod), "cpuperiod", toString(a.cpuPeriod))
      e16 == appendIf(e15, Truthy(a.cpuQuota), "cpuquota", toString(a.cpuQuota))
      e17 == appendIf(e16, Truthy(a.buildArgs), "buildargs", JSONStringify(a.buildArgs))
      e18 == appendIf(e17, Truthy(a.shmSize), "shmsize", toString(a.shmSize))
      e19 == appendIf(e18, Truthy(a.squash), "squash", toString(a.squash))
      e20 == appendIf(e19, Truthy(a.labels), "labels", JSONStringify(a.labels))
      e21 == appendIf(e20, Truthy(a.networkMode), "networkmode", a.networkMode.s)
      e22 == appendIf(e21, Truthy(a.platform), "platform", a.platform.s)
      e23 == appendIf(e22, Truthy(a.target), "target", a.target.s)
  IN appendIf(e23, Truthy(a.outputs), "outputs", a.outputs.s)

ImageModule_buildPrune_endpoint(url, a) ==
  LET e0 == NewURL(url \o "/build/prune")
      e1 == appendIf(e0, Truthy(a.keepStorage), "keep-storage", toString(a.keepStorage))
      e2 == appendIf(e1, Truthy(a.all), "all", toString(a.all))
  IN appendIf(e2, Truthy(a.filters), "filters", JSONStringify(a.filters))

\* A test that only rejects the call with neither.
ImageModule_create_unclear_neither(a) == a.binary = undefined /\ a.fromSrc = undefined

\* The test that makes ImageModule.create throw: neither or both of binary
\* and fromSrc are given.
ImageModule_create_unclear(a) ==
  \/ (a.binary = undefined /\ a.fromSrc = undefined)
  \/ (a.binary # undefined /\ a.fromSrc # undefined)

ImageModule_create_endpoint(url, a) ==
  LET e0 == NewURL(url \o "/images/create")
      e1 == append(e0, "fromSrc", IF a.fromSrc # undefined THEN a.fromSrc.s ELSE "-")
      e2 == appendIf(e1, Truthy(a.fromImage), "fromImage", a.fromImage.s)
      e3 == appendIf(e2, Truthy(a.repo), "repo", a.repo.s)
      e4 == appendIf(e3, Truthy(a.tag), "tag", a.tag.s)
      e5 == appendIf(e4, Truthy(a.message), "message", a.message.s)
      e6 == appendIf(e5, Truthy(a.changes), "changes", JSONStringify(a.changes))
  IN appendIf(e6, Truthy(a.platform), "platform", a.platform.s)

ImageModule_inspect_endpoint(url, a) == NewURL(url \o "/images/" \o a.name.s \o "/json")

ContainerModule_list_endpoint(url, a) ==
  LET e0 == NewURL(url \o "/containers/json")
      e1 == appendIf(e0, Truthy(a.all), "all", toString(a.all))
      e2 == appendIf(e1, Truthy(a.limit), "limit", toString(a.limit))
      e3 == appendIf(e2, Truthy(a.size), "size", toString(a.size))
  IN appendIf(e3, Truthy(a.filters), "filters", JSONStringify(a.filters))

ContainerModule_create_endpoint(url, a) ==
  LET e0 == NewURL(url \o "/containers/create")
      e1 == appendIf(e0, Truthy(a.name), "name", a.name.s)
  IN appendIf(e1, Truthy(a.platform), "platform", a.platform.s)

ContainerModule_inspect_endpoint(url, a) ==
  LET e0 == NewURL(url \o "/containers/" \o a.id.s \o "/json")
  IN appendIf(e0, Truthy(a.size), "size", toString(a.size))

ContainerModule_top_endpoint(url, a) ==
  LET e0 == NewURL(url \o "/containers/" \o a.id.s \o "/top")
  IN appendIf(e0, Truthy(a.psArgs), "ps_args", a.psArgs.s)

ContainerModule_logs_endpoint(url, a) ==
  LET e0 == NewURL(url \o "/containers/" \o a.id.s \o "/logs")
      e1 == appendIf(e0, Truthy(a.follow), "follow", toString(a.follow))
      e2 == appendIf(e1, Truthy(a.stdout), "stdout", toString(a.stdout))
      e3 == appendIf(e2, Truthy(a.stderr), "stderr", toString(a.stderr))
      e4 == appendIf(e3, Truthy(a.since), "since", toString(a.since))
      e5 == appendIf(e4, Truthy(a.until), "until", toString(a.until))
      e6 == appendIf(e5, Truthy(a.timestamps), "timestamps", toString(a.timestamps))
  IN appendIf(e6, Truthy(a.tail), "tail", a.tail.s)

ContainerModule_changes_endpoint(url, a) == NewURL(url \o "/containers/" \o a.id.s \o "/changes")

ContainerModule_backup_endpoint(url, a) == NewURL(url \o "/containers/" \o a.id.s \o "/export")

\* A stats endpoint that leaves the daemon's default, the live stream.
ContainerModule_stats_endpoint_streaming(url, a) ==
  NewURL(url \o "/containers/" \o a.id.s \o "/stats")

ContainerModule_stats_endpoint(url, a) ==
  LET e0 == NewURL(url \o "/containers/" \o a.id.s \o "/stats")
      e1 == append(e0, "stream", "false")
  IN append(e1, "one-shot", "true")

ContainerModule_start_endpoint(url, a) == NewURL(url \o "/containers/" \o a.id.s \o "/start")

ContainerModule_stop_endpoint(url, a) ==
  LET e0 == NewURL(url \o "/containers/" \o a.id.s \o "/stop")
  IN appendIf(e0, Truthy(a.timeout), "t", toString(a.timeout))

ContainerModule_restart_endpoint(url, a) ==
  LET e0 == NewURL(url \o "/containers/" \o a.id.s \o "/restart")
  IN appendIf(e0, Truthy(a.timeout), "t", toString(a.timeout))

ContainerModule_kill_endpoint(url, a) ==
  LET e0 == NewURL(url \o "/containers/" \o a.id.s \o "/kill")
  IN appendIf(e0, Truthy(a.signal), "signal", a.signal.s)

ContainerModule_update_endpoint(url, a) == NewURL(url \o "/containers/" \o a.id.s \o "/update")

ContainerModule_rename_endpoint(url, a) ==
  LET e0 == NewURL(url \o "/containers/" \o a.id.s \o "/rename")
  IN append(e0, "name", a.name.s)

ContainerModule_pause_endpoint(url, a) == NewURL(url \o "/containers/" \o a.id.s \o "/pause")

ContainerModule_prune_endpoint(url, a) == NewURL(url \o "/containers/prune")

(***************************************************************************)
(* The arguments the model calls the functions with.                       *)
(***************************************************************************)
\* Daemon URLs: absolute http URLs without query or fragment.
Urls == {Str("http://localhost:2375"), Str("http://10.0.0.5:2375/v1.41")}
\* Container ids and names as the daemon gives them out.
Ids == {Str("abc123"), Str("web_1")}
ImageNames == {Str("alpine"), Str("library/alpine:3.18")}

OptBool == {undefined, Bool(FALSE), Bool(TRUE)}
OptNum == {undefined, Num(0), Num(MaxNum)}
OptStr(S) == {undefined, Str("")} \cup {Str(x) : x \in S}
OptFilters == {undefined, Map(<<>>), Map(<<[k |-> "status", v |-> <<"running">>]>>)}
OptDict == {undefined, Dict(<<>>), Dict(<<[k |-> "FOO", v |-> "bar"]>>)}
OptList(S) == {undefined, Arr(<<>>)} \cup {Arr(x) : x \in S}
\* Buffers: ASCII bytes, a two-byte UTF-8 sequence, and bytes that are no UTF-8.
Buffers == {Buf(<<>>), Buf(<<116, 97, 114>>), Buf(<<195, 169>>), Buf(<<116, 255>>)}
BasicAuth == Dict(<<[k |-> "username", v |-> "u"], [k |-> "password", v |-> "p"]>>)
TokenAuth == Dict(<<[k |-> "identitytoken", v |-> "tok"]>>)

\* How many of the arguments `names` of argument record a are supplied.
Supplied(a, names) == Cardinality({n \in names : a[n] # undefined})

ImageModule_list_args ==
  [url : Urls, all : OptBool, filters : OptFilters, sharedSize : OptBool, digests : OptBool]

BuildOptionNames ==
  {"contentType", "registryConfig", "dockerfile", "tags", "extraHosts", "remote", "quiet", "noCache", "cacheFrom", "pull",
   "removeIntermediate", "forceRemoveIntermediate", "memoryLimit", "memorySwap", "cpuShares",
   "cpuSetCpus", "cpuPeriod", "cpuQuota", "buildArgs", "shmSize", "squash", "labels",
   "networkMode", "platform", "target", "outputs"}

BuildOptionValues(n) ==
  CASE n \in {"quiet", "noCache", "removeIntermediate", "forceRemoveIntermediate", "squash"} ->
         {Bool(FALSE), Bool(TRUE)}
    [] n \in {"memoryLimit", "cpuShares", "cpuPeriod", "cpuQuota", "shmSize"} ->
         {Num(0), Num(MaxNum)}
    [] n = "memorySwap" -> {Num(0), Num(0 - 1), Num(MaxNum)}
    [] n \in {"buildArgs", "labels"} -> {Dict(<<>>), Dict(<<[k |-> "FOO", v |-> "bar"]>>)}
    [] n = "tags" -> {Arr(<<>>), Arr(<<"img:1">>), Arr(<<"img:1", "img:latest">>)}
    [] n = "contentType" -> {Str("application/gzip")}
    [] n = "registryConfig" -> {BasicAuth}
    [] OTHER -> {Str(""), Str("x y")}

BuildNoOptions == [n \in BuildOptionNames |-> undefined]

RECURSIVE BuildOptions(_)
\* The option records with at most k options supplied.
BuildOptions(k) ==
  IF k = 0 THEN {BuildNoOptions}
  ELSE LET P == BuildOptions(k - 1)
       IN P \cup UNION {UNION {{[o EXCEPT ![n] = v] : v \in BuildOptionValues(n)} :
                                n \in BuildOptionNames} : o \in P}

ImageModule_build_required == [url : Urls, binary : {Buf(<<116, 97, 114>>), Buf(<<116, 255>>)}]

ImageModule_build_args == {r @@ o : r \in ImageModule_build_required, o \in BuildOptions(MaxBuildOpts)}

ImageModule_buildPrune_args == [url : Urls, keepStorage : OptNum, all : OptBool, filters : OptFilters]

ImageModule_create_options ==
  {"authConfig", "fromImage", "repo", "tag", "message", "changes", "platform"}

ImageModule_create_args ==
  {a \in [url : Urls, binary : {undefined, Buf(<<116, 97, 114>>)}, authConfig : {undefined, TokenAuth},
          fromImage : OptStr({"alpine"}), fromSrc : OptStr({"http://src/img.tar"}),
          repo : OptStr({"me/img"}), tag : {undefined, Str("3.18")}, message : {undefined, Str("hi there")},
          changes : OptList({<<"ENV DEBUG=true">>}), platform : {undefined, Str("linux/amd64")}] :
     Supplied(a, ImageModule_create_options) <= MaxCreateOpts}

ImageModule_inspect_args == [url : Urls, name : ImageNames]

ContainerModule_list_args ==
  [url : Urls, all : OptBool, limit : OptNum, size : OptBool, filters : OptFilters]

\* Container configurations, as the JSON objects the caller hands over.
ContainerConfigs == {Dict(<<[k |-> "Image", v |-> "alpine"]>>),
                     Dict(<<[k |-> "Image", v |-> "alpine"], [k |-> "Hostname", v |-> "h1"]>>),
                     Dict(<<[k |-> "Hostname", v |-> ""], [k |-> "Image", v |-> "alpine"]>>)}

ContainerModule_create_args ==
  [url : Urls, containerConfig : ContainerConfigs, name : OptStr({"web_1"}),
   platform : OptStr({"linux/amd64"})]

ContainerModule_inspect_args == [url : Urls, id : Ids, size : OptBool]

ContainerModule_top_args == [url : Urls, id : Ids, psArgs : OptStr({"aux"})]

ContainerModule_logs_options == {"follow", "stdout", "stderr", "since", "until", "timestamps", "tail"}

ContainerModule_logs_args ==
  {a \in [url : Urls, id : Ids, follow : OptBool, stdout : OptBool, stderr : OptBool, since : OptNum,
          until : OptNum, timestamps : OptBool, tail : OptStr({"all"})] :
     Supplied(a, ContainerModule_logs_options) <= MaxLogsOpts}

ContainerModule_id_args == [url : Urls, id : Ids]

ContainerModule_timeout_args == [url : Urls, id : Ids, timeout : OptNum]

ContainerModule_kill_args == [url : Urls, id : Ids, signal : OptStr({"SIGKILL"})]

ContainerUpdates == {Dict(<<[k |-> "CpusetCpus", v |-> "0-1"]>>)}

ContainerModule_update_args == [url : Urls, id : Ids, config : ContainerUpdates]

ContainerModule_rename_args == [url : Urls, id : Ids, name : {Str("web_2"), Str("")}]

ContainerModule_prune_args == [url : Urls]

(***************************************************************************)
(* Values that promises carry.  One record shape: kind and text describe   *)
(* the value; an AxiosResponse has a status and data, an AxiosError has a  *)
(* code (text) and, when the daemon answered, the response's status and    *)
(* data.  data is a decoded body: kind "json" (the object the text        *)
(* parses to), "string" (text that is no JSON), "stream" (a readable       *)
(* stream over the body's bytes) or "undefined".                           *)
(***************************************************************************)
NoData == [kind |-> "undefined", text |-> ""]
JS(kind, text) == [kind |-> kind, text |-> text, hasResponse |-> FALSE, status |-> 0, data |-> NoData]
JSUndefined == JS("undefined", "")
AxiosResponse(status, data) ==
  [kind |-> "AxiosResponse", text |-> "", hasResponse |-> TRUE, status |-> status, data |-> data]
AxiosError(code, hasResponse, status, data) ==
  [kind |-> "AxiosError", text |-> code, hasResponse |-> hasResponse, status |-> status, data |-> data]
\* The value of reading x.data where data is a decoded body.
DataValue(data) == JS(data.kind, data.text)

NoPromise == [state |-> "none", value |-> JSUndefined]
Pending == [state |-> "pending", value |-> JSUndefined]
Fulfilled(v) == [state |-> "fulfilled", value |-> v]
Rejected(v) == [state |-> "rejected", value |-> v]
IsSettled(p) == p.state \in {"fulfilled", "rejected"}

(***************************************************************************)
(* Requests as axios receives them: method, url string, body, the headers  *)
(* the library sets, and the responseType of the config.                   *)
(***************************************************************************)
NoHeaders == [ContentType |-> undefined, ContentLength |-> undefined, XRegistryConfig |-> undefined]

axios_get(url, responseType) ==
  [method |-> "GET", url |-> url, body |-> undefined, headers |-> NoHeaders, responseType |-> responseType]

axios_post(url, body, headers) ==
  [method |-> "POST", url |-> url, body |-> body, headers |-> headers, responseType |-> "json"]

(***************************************************************************)
(* The daemon and the transport.                                           *)
(***************************************************************************)
ErrorBody == "{\"message\":\"no such container\"}"

\* A body the daemon sends with status 200 on each endpoint.
Payload(name) ==
  CASE name = "ContainerModule.prune" -> "{\"ContainersDeleted\":[\"abc123\"],\"SpaceReclaimed\":5}"
    [] name = "ImageModule.buildPrune" -> "{\"CacheDeleted\":[\"c1\"],\"SpaceReclaimed\":5}"
    [] name = "ContainerModule.create" -> "{\"Id\":\"abc123\",\"Warnings\":[]}"
    [] name = "ContainerModule.update" -> "{\"Warnings\":[]}"
    [] name = "ContainerModule.top" -> "{\"Titles\":[\"PID\"],\"Processes\":[[\"1\"]]}"
    [] name = "ImageModule.list" -> "[{\"Id\":\"sha256:1f\"}]"
    [] name \in {"ContainerModule.list", "ContainerModule.changes"} -> "[{\"Id\":\"abc123\"}]"
    [] name \in {"ContainerModule.logs", "ContainerModule.backup"} -> "raw bytes"
    [] OTHER -> "{\"Id\":\"abc123\"}"

\* What the daemon may answer: a status and a body.
DaemonResponses(name) ==
  {[status |-> 200, body |-> Payload(name)], [status |-> 204, body |-> ""],
   [status |-> 404, body |-> ErrorBody]}

\* Failures of the transport that leave the request without a response.
TransportErrors == {"ECONNREFUSED"}

\* Whether a body is JSON text: the bodies of the model that are start with { or [.
IsJSON(body) == Len(body) > 0 /\ CharAt(body, 1) \in {"{", "["}

\* axios decoding a response body: with responseType 'stream' the data is the
\* stream itself, whatever it carries; otherwise JSON text is parsed and any
\* other text is left a string.
DecodeBody(responseType, body) ==
  IF responseType = "stream" THEN [kind |-> "stream", text |-> body]
  ELSE IF IsJSON(body) THEN [kind |-> "json", text |-> body]
  ELSE [kind |-> "string", text |-> body]

\* axios's default validateStatus.
validateStatus(status) == status >= 200 /\ status < 300

\* axios settling the request's promise on a response.
AxiosSettle(req, r) ==
  LET data == DecodeBody(req.responseType, r.body)
  IN IF validateStatus(r.status) THEN Fulfilled(AxiosResponse(r.status, data))
     ELSE Rejected(AxiosError("ERR_BAD_REQUEST", TRUE, r.status, data))

(***************************************************************************)
(* The state.  Per call slot c:                                            *)
(*   pc[c]       "idle", "returned" (the function returned its promise) or *)
(*               "thrown" (the function threw)                             *)
(*   op[c]       the function called, args[c] its arguments               *)
(*   requests[c] the requests handed to axios, in order                    *)
(*   axiosPromise[c]  the promise axios returned                           *)
(*   thenPromise[c]   the promise of .then(...)                            *)
(*   returned[c]      the promise of .catch(...), which the caller gets    *)
(*   thrown[c]   the error thrown out of the call                          *)
(*   settles[c]  how many times returned[c] was settled                    *)
(***************************************************************************)
VARIABLES pc, op, args, requests, axiosPromise, thenPromise, returned, thrown, settles

vars == <<pc, op, args, requests, axiosPromise, thenPromise, returned, thrown, settles>>

NoArgs == [url |-> undefined]

Init ==
  /\ pc = [c \in CallIds |-> "idle"]
  /\ op = [c \in CallIds |-> ""]
  /\ args = [c \in CallIds |-> NoArgs]
  /\ requests = [c \in CallIds |-> <<>>]
  /\ axiosPromise = [c \in CallIds |-> NoPromise]
  /\ thenPromise = [c \in CallIds |-> NoPromise]
  /\ returned = [c \in CallIds |-> NoPromise]
  /\ thrown = [c \in CallIds |-> JSUndefined]
  /\ settles = [c \in CallIds |-> 0]

\* The caller awaits each call before it makes the next: a call starts in the
\* first slot, and only when no call is outstanding.
CallerReady(c) == c = 1 /\ \A d \in CallIds : pc[d] = "idle"

\* A call that hands its request to axios twice.
IssuedTwice(req) == <<req, req>>

\* The requests a call hands to axios, given the one its code builds.
Issued(req) == <<req>>

\* return axios.<method>(...).then(...).catch(...): the request is handed to
\* axios and the promise of the chain is returned, pending.
Call(c, name, a, req) ==
  /\ pc[c] = "idle"
  /\ pc' = [pc EXCEPT ![c] = "returned"]
  /\ op' = [op EXCEPT ![c] = name]
  /\ args' = [args EXCEPT ![c] = a]
  /\ requests' = [requests EXCEPT ![c] = @ \o Issued(req)]
  /\ axiosPromise' = [axiosPromise EXCEPT ![c] = Pending]
  /\ thenPromise' = [thenPromise EXCEPT ![c] = Pending]
  /\ returned' = [returned EXCEPT ![c] = Pending]
  /\ UNCHANGED <<thrown, settles>>

\* throw Error(message) before anything is handed to axios.
Throw(c, name, a, message) ==
  /\ pc[c] = "idle"
  /\ pc' = [pc EXCEPT ![c] = "thrown"]
  /\ op' = [op EXCEPT ![c] = name]
  /\ args' = [args EXCEPT ![c] = a]
  /\ thrown' = [thrown EXCEPT ![c] = JS("Error", message)]
  /\ UNCHANGED <<requests, axiosPromise, thenPromise, returned, settles>>

(***************************************************************************)
(* ImageModule                                                             *)
(***************************************************************************)
\* axios.get(endpoint.toString()) of ImageModule.list.
ImageModule_list_request(a) ==
  axios_get(URLToString(ImageModule_list_endpoint(a.url.s, a)), "json")

ImageModule_list(c, A) ==
  /\ CallerReady(c)
  /\ \E a \in A : Call(c, "ImageModule.list", a, ImageModule_list_request(a))

\* ImageModule.list called while other calls are in flight.
ImageModule_list_concurrently(c, A) ==
  /\ pc[c] = "idle"
  /\ \E a \in A : Call(c, "ImageModule.list", a, ImageModule_list_request(a))

ImageModule_build_headers(a) ==
  [ContentType |-> IF a.contentType # undefined THEN a.contentType ELSE Str("application/x-tar"),
   ContentLength |-> Num(byteLength(a.binary)),
   XRegistryConfig |-> IF a.registryConfig # undefined THEN Str(Base64OfJSON(a.registryConfig))
                       ELSE undefined]

ImageModule_build(c, A) ==
  /\ CallerReady(c)
  /\ \E a \in A :
       Call(c, "ImageModule.build", a,
            axios_post(URLToString(ImageModule_build_endpoint(a.url.s, a)), BufferToString(a.binary),
                       ImageModule_build_headers(a)))

ImageModule_buildPrune(c, A) ==
  /\ CallerReady(c)
  /\ \E a \in A :
       Call(c, "ImageModule.buildPrune", a,
            axios_post(URLToString(ImageModule_buildPrune_endpoint(a.url.s, a)), undefined, NoHeaders))

ImageModule_create_headers(a) ==
  [NoHeaders EXCEPT !.XRegistryConfig =
     IF a.authConfig # undefined THEN Str(Base64OfJSON(a.authConfig)) ELSE undefined]

ImageModule_create(c, A) ==
  /\ CallerReady(c)
  /\ \E a \in A :
       IF ImageModule_create_unclear(a)
       THEN Throw(c, "ImageModule.create", a, "Create mode is not clear. Use fromSrc or binary")
       ELSE Call(c, "ImageModule.create", a,
                 axios_post(URLToString(ImageModule_create_endpoint(a.url.s, a)), a.binary,
                            ImageModule_create_headers(a)))

ImageModule_inspect(c, A) ==
  /\ CallerReady(c)
  /\ \E a \in A :
       Call(c, "ImageModule.inspect", a,
            axios_get(URLToString(ImageModule_inspect_endpoint(a.url.s, a)), "json"))

(***************************************************************************)
(* ContainerModule                                                         *)
(***************************************************************************)
\* axios.get(endpoint.toString()) of ContainerModule.list.
ContainerModule_list_request(a) ==
  axios_get(URLToString(ContainerModule_list_endpoint(a.url.s, a)), "json")

ContainerModule_list(c, A) ==
  /\ CallerReady(c)
  /\ \E a \in A : Call(c, "ContainerModule.list", a, ContainerModule_list_request(a))

\* ContainerModule.list called while other calls are in flight.
ContainerModule_list_concurrently(c, A) ==
  /\ pc[c] = "idle"
  /\ \E a \in A : Call(c, "ContainerModule.list", a, ContainerModule_list_request(a))

\* A request body that takes the container's name in when one is given.
ContainerModule_create_body_named(a) ==
  IF a.name # undefined
  THEN [a.containerConfig EXCEPT !.d = @ \o <<[k |-> "Name", v |-> a.name.s]>>]
  ELSE a.containerConfig

\* The data argument of axios.post: the config the caller passed.
ContainerModule_create_body(a) == a.containerConfig

ContainerModule_create(c, A) ==
  /\ CallerReady(c)
  /\ \E a \in A :
       Call(c, "ContainerModule.create", a,
            axios_post(URLToString(ContainerModule_create_endpoint(a.url.s, a)),
                       ContainerModule_create_body(a), NoHeaders))

ContainerModule_inspect(c, A) ==
  /\ CallerReady(c)
  /\ \E a \in A :
       Call(c, "ContainerModule.inspect", a,
            axios_get(URLToString(ContainerModule_inspect_endpoint(a.url.s, a)), "json"))

ContainerModule_top(c, A) ==
  /\ CallerReady(c)
  /\ \E a \in A :
       Call(c, "ContainerModule.top", a,
            axios_get(URLToString(ContainerModule_top_endpoint(a.url.s, a)), "json"))

ContainerModule_logs(c, A) ==
  /\ CallerReady(c)
  /\ \E a \in A :
       Call(c, "ContainerModule.logs", a,
            axios_get(URLToString(ContainerModule_logs_endpoint(a.url.s, a)), "stream"))

ContainerModule_changes(c, A) ==
  /\ CallerReady(c)
  /\ \E a \in A :
       Call(c, "ContainerModule.changes", a,
            axios_get(URLToString(ContainerModule_changes_endpoint(a.url.s, a)), "json"))

ContainerModule_backup(c, A) ==
  /\ CallerReady(c)
  /\ \E a \in A :
       Call(c, "ContainerModule.backup", a,
            axios_get(URLToString(ContainerModule_backup_endpoint(a.url.s, a)), "stream"))

ContainerModule_stats(c, A) ==
  /\ CallerReady(c)
  /\ \E a \in A :
       Call(c, "ContainerModule.stats", a,
            axios_get(URLToString(ContainerModule_stats_endpoint(a.url.s, a)), "json"))

ContainerModule_start(c, A) ==
  /\ CallerReady(c)
  /\ \E a \in A :
       Call(c, "ContainerModule.start", a,
            axios_post(URLToString(ContainerModule_start_endpoint(a.url.s, a)), undefined, NoHeaders))

ContainerModule_stop(c, A) ==
  /\ CallerReady(c)
  /\ \E a \in A :
       Call(c, "ContainerModule.stop", a,
            axios_post(URLToString(ContainerModule_stop_endpoint(a.url.s, a)), undefined, NoHeaders))

ContainerModule_restart(c, A) ==
  /\ CallerReady(c)
  /\ \E a \in A :
       Call(c, "ContainerModule.restart", a,
            axios_post(URLToString(ContainerModule_restart_endpoint(a.url.s, a)), undefined, NoHeaders))

ContainerModule_kill(c, A) ==
  /\ CallerReady(c)
  /\ \E a \in A :
       Call(c, "ContainerModule.kill", a,
            axios_post(URLToString(ContainerModule_kill_endpoint(a.url.s, a)), undefined, NoHeaders))

ContainerModule_update(c, A) ==
  /\ CallerReady(c)
  /\ \E a \in A :
       Call(c, "ContainerModule.update", a,
            axios_post(URLToString(ContainerModule_update_endpoint(a.url.s, a)), a.config, NoHeaders))

ContainerModule_rename(c, A) ==
  /\ CallerReady(c)
  /\ \E a \in A :
       Call(c, "ContainerModule.rename", a,
            axios_post(URLToString(ContainerModule_rename_endpoint(a.url.s, a)), undefined, NoHeaders))

ContainerModule_pause(c, A) ==
  /\ CallerReady(c)
  /\ \E a \in A :
       Call(c, "ContainerModule.pause", a,
            axios_post(URLToString(ContainerModule_pause_endpoint(a.url.s, a)), undefined, NoHeaders))

ContainerModule_prune(c, A) ==
  /\ CallerReady(c)
  /\ \E a \in A :
       Call(c, "ContainerModule.prune", a,
            axios_post(URLToString(ContainerModule_prune_endpoint(a.url.s, a)), undefined, NoHeaders))

(***************************************************************************)
(* The exchange and the promise chain.                                     *)
(***************************************************************************)
\* An exchange layer that settles a call's promise with the answer to the
\* request of any call in flight.
RespondCrossed(c) ==
  /\ axiosPromise[c].state = "pending"
  /\ \E d \in CallIds :
       /\ pc[d] = "returned"
       /\ \E r \in DaemonResponses(op[d]) :
            axiosPromise' = [axiosPromise EXCEPT ![c] = AxiosSettle(requests[d][Len(requests[d])], r)]
  /\ UNCHANGED <<pc, op, args, requests, thenPromise, returned, thrown, settles>>

\* The daemon answers the call's request: the exchange completes and axios
\* settles its promise.
Respond(c) ==
  /\ axiosPromise[c].state = "pending"
  /\ \E r \in DaemonResponses(op[c]) :
       axiosPromise' = [axiosPromise EXCEPT ![c] = AxiosSettle(requests[c][Len(requests[c])], r)]
  /\ UNCHANGED <<pc, op, args, requests, thenPromise, returned, thrown, settles>>

\* The exchange ends without a response: axios rejects with an error that has
\* no response.
TransportFailure(c) ==
  /\ axiosPromise[c].state = "pending"
  /\ \E code \in TransportErrors :
       axiosPromise' = [axiosPromise EXCEPT ![c] = Rejected(AxiosError(code, FALSE, 0, NoData))]
  /\ UNCHANGED <<pc, op, args, requests, thenPromise, returned, thrown, settles>>

\* The functions whose .then handler is x => undefined; the others have
\* x => x.data.
ReturnsUndefined ==
  {"ContainerModule.start", "ContainerModule.stop", "ContainerModule.restart",
   "ContainerModule.kill", "ContainerModule.rename", "ContainerModule.pause",
   "ContainerModule.prune"}

\* A .then handler that hands on the response body for every function.
onFulfilledData(name, x) == DataValue(x.data)

\* The .then handler of function `name` on the response x.
onFulfilled(name, x) == IF name \in ReturnsUndefined THEN JSUndefined ELSE DataValue(x.data)

\* The .catch handler, x => { throw x.response.data }: what it throws.  With no
\* response, reading .data of undefined throws a TypeError.
onRejected(x) ==
  IF x.hasResponse THEN DataValue(x.data)
  ELSE JS("TypeError", "Cannot read properties of undefined (reading 'data')")

\* .then(handler): runs once the axios promise is settled; a rejection passes through.
Then(c) ==
  /\ IsSettled(axiosPromise[c])
  /\ thenPromise[c].state = "pending"
  /\ thenPromise' = [thenPromise EXCEPT ![c] =
       IF axiosPromise[c].state = "fulfilled"
       THEN Fulfilled(onFulfilled(op[c], axiosPromise[c].value))
       ELSE Rejected(axiosPromise[c].value)]
  /\ UNCHANGED <<pc, op, args, requests, axiosPromise, returned, thrown, settles>>

\* A .catch reaction that does not wait for the promise before it.
CatchReadyEarly(c) == thenPromise[c].state # "none" /\ returned[c].state = "pending"

\* Whether the reaction of .catch may run for call c.
CatchReady(c) == IsSettled(thenPromise[c]) /\ returned[c].state = "pending"

\* .catch(handler): runs once the .then promise is settled; a fulfilment
\* passes through, a rejection is answered by what the handler throws.
Catch(c) ==
  /\ CatchReady(c)
  /\ returned' = [returned EXCEPT ![c] =
       IF thenPromise[c].state = "fulfilled"
       THEN Fulfilled(thenPromise[c].value)
       ELSE Rejected(onRejected(thenPromise[c].value))]
  /\ settles' = [settles EXCEPT ![c] = @ + 1]
  /\ UNCHANGED <<pc, op, args, requests, axiosPromise, thenPromise, thrown>>

\* The caller has the outcome of call c and lets go of it: the slot is free again.
Release(c) ==
  /\ \/ pc[c] = "thrown"
     \/ pc[c] = "returned" /\ IsSettled(returned[c])
  /\ pc' = [pc EXCEPT ![c] = "idle"]
  /\ op' = [op EXCEPT ![c] = ""]
  /\ args' = [args EXCEPT ![c] = NoArgs]
  /\ requests' = [requests EXCEPT ![c] = <<>>]
  /\ axiosPromise' = [axiosPromise EXCEPT ![c] = NoPromise]
  /\ thenPromise' = [thenPromise EXCEPT ![c] = NoPromise]
  /\ returned' = [returned EXCEPT ![c] = NoPromise]
  /\ thrown' = [thrown EXCEPT ![c] = JSUndefined]
  /\ settles' = [settles EXCEPT ![c] = 0]

\* The optional arguments of each function.  (binary and fromSrc of
\* ImageModule.create, which select its mode, are not counted.)
Options(name) ==
  CASE name = "ImageModule.list" -> {"all", "filters", "sharedSize", "digests"}
    [] name = "ImageModule.build" -> BuildOptionNames
    [] name = "ImageModule.buildPrune" -> {"keepStorage", "all", "filters"}
    [] name = "ImageModule.create" -> ImageModule_create_options
    [] name = "ContainerModule.list" -> {"all", "limit", "size", "filters"}
    [] name = "ContainerModule.create" -> {"name", "platform"}
    [] name = "ContainerModule.inspect" -> {"size"}
    [] name = "ContainerModule.top" -> {"psArgs"}
    [] name = "ContainerModule.logs" -> ContainerModule_logs_options
    [] name \in {"ContainerModule.stop", "ContainerModule.restart"} -> {"timeout"}
    [] name = "ContainerModule.kill" -> {"signal"}
    [] OTHER -> {}

\* The argument records of A with at most MaxChainOpts options supplied.
Few(name, A) == {a \in A : Supplied(a, Options(name)) <= MaxChainOpts}

\* The calls alone, over all the arguments of the model: a call is made and
\* the caller lets go of it.
RequestNext ==
  \/ \E c \in CallIds : ImageModule_list(c, ImageModule_list_args)
  \/ \E c \in CallIds : ImageModule_build(c, ImageModule_build_args)
  \/ \E c \in CallIds : ImageModule_buildPrune(c, ImageModule_buildPrune_args)
  \/ \E c \in CallIds : ImageModule_create(c, ImageModule_create_args)
  \/ \E c \in CallIds : ImageModule_inspect(c, ImageModule_inspect_args)
  \/ \E c \in CallIds : ContainerModule_list(c, ContainerModule_list_args)
  \/ \E c \in CallIds : ContainerModule_create(c, ContainerModule_create_args)
  \/ \E c \in CallIds : ContainerModule_inspect(c, ContainerModule_inspect_args)
  \/ \E c \in CallIds : ContainerModule_top(c, ContainerModule_top_args)
  \/ \E c \in CallIds : ContainerModule_logs(c, ContainerModule_logs_args)
  \/ \E c \in CallIds : ContainerModule_changes(c, ContainerModule_id_args)
  \/ \E c \in CallIds : ContainerModule_backup(c, ContainerModule_id_args)
  \/ \E c \in CallIds : ContainerModule_stats(c, ContainerModule_id_args)
  \/ \E c \in CallIds : ContainerModule_start(c, ContainerModule_id_args)
  \/ \E c \in CallIds : ContainerModule_stop(c, ContainerModule_timeout_args)
  \/ \E c \in CallIds : ContainerModule_restart(c, ContainerModule_timeout_args)
  \/ \E c \in CallIds : ContainerModule_kill(c, ContainerModule_kill_args)
  \/ \E c \in CallIds : ContainerModule_update(c, ContainerModule_update_args)
  \/ \E c \in CallIds : ContainerModule_rename(c, ContainerModule_rename_args)
  \/ \E c \in CallIds : ContainerModule_pause(c, ContainerModule_id_args)
  \/ \E c \in CallIds : ContainerModule_prune(c, ContainerModule_prune_args)
  \/ \E c \in CallIds : Release(c)

RequestSpec == Init /\ [][RequestNext]_vars

\* The calls with their exchange and promise chain.  The chain of a call does
\* not read the call's arguments, so the calls are made with few options.
Next ==
  \/ \E c \in CallIds : ImageModule_list(c, Few("ImageModule.list", ImageModule_list_args))
  \/ \E c \in CallIds : ImageModule_build(c, Few("ImageModule.build", ImageModule_build_args))
  \/ \E c \in CallIds : ImageModule_buildPrune(c, Few("ImageModule.buildPrune", ImageModule_buildPrune_args))
  \/ \E c \in CallIds : ImageModule_create(c, Few("ImageModule.create", ImageModule_create_args))
  \/ \E c \in CallIds : ImageModule_inspect(c, ImageModule_inspect_args)
  \/ \E c \in CallIds : ContainerModule_list(c, Few("ContainerModule.list", ContainerModule_list_args))
  \/ \E c \in CallIds : ContainerModule_create(c, Few("ContainerModule.create", ContainerModule_create_args))
  \/ \E c \in CallIds : ContainerModule_inspect(c, Few("ContainerModule.inspect", ContainerModule_inspect_args))
  \/ \E c \in CallIds : ContainerModule_top(c, Few("ContainerModule.top", ContainerModule_top_args))
  \/ \E c \in CallIds : ContainerModule_logs(c, Few("ContainerModule.logs", ContainerModule_logs_args))
  \/ \E c \in CallIds : ContainerModule_changes(c, ContainerModule_id_args)
  \/ \E c \in CallIds : ContainerModule_backup(c, ContainerModule_id_args)
  \/ \E c \in CallIds : ContainerModule_stats(c, ContainerModule_id_args)
  \/ \E c \in CallIds : ContainerModule_start(c, ContainerModule_id_args)
  \/ \E c \in CallIds : ContainerModule_stop(c, Few("ContainerModule.stop", ContainerModule_timeout_args))
  \/ \E c \in CallIds : ContainerModule_restart(c, Few("ContainerModule.restart", ContainerModule_timeout_args))
  \/ \E c \in CallIds : ContainerModule_kill(c, Few("ContainerModule.kill", ContainerModule_kill_args))
  \/ \E c \in CallIds : ContainerModule_update(c, ContainerModule_update_args)
  \/ \E c \in CallIds : ContainerModule_rename(c, ContainerModule_rename_args)
  \/ \E c \in CallIds : ContainerModule_pause(c, ContainerModule_id_args)
  \/ \E c \in CallIds : ContainerModule_prune(c, ContainerModule_prune_args)
  \/ \E c \in CallIds : Respond(c)
  \/ \E c \in CallIds : TransportFailure(c)
  \/ \E c \in CallIds : Then(c)
  \/ \E c \in CallIds : Catch(c)
  \/ \E c \in CallIds : Release(c)

Spec == Init /\ [][Next]_vars

\* The promise reactions are jobs of the microtask queue, which the event loop
\* runs to the end: a reaction that is ready runs.
FairSpec == Spec /\ \A c \in CallIds : WF_vars(Then(c)) /\ WF_vars(Catch(c))

\* The calls a caller keeps in flight together: the two list functions, with
\* arguments that tell the calls and their URLs apart.
ImageModule_list_concurrent_args ==
  {a \in ImageModule_list_args :
     /\ a.url = Str("http://localhost:2375") /\ a.all = Bool(TRUE)
     /\ a.filters = undefined /\ a.sharedSize = undefined /\ a.digests = undefined}

ContainerModule_list_concurrent_args ==
  {a \in ContainerModule_list_args :
     /\ a.all = undefined /\ a.size = undefined /\ a.filters = undefined
     /\ \/ a.url = Str("http://localhost:2375") /\ a.limit = Num(MaxNum)
        \/ a.url = Str("http://10.0.0.5:2375/v1.41") /\ a.limit = undefined}

\* Any number of calls (up to MaxCalls) in flight at once.  A call runs to
\* its return statement without interruption, as a JavaScript function does;
\* the exchanges and the promise reactions of the calls interleave freely.
ConcurrentNext ==
  \/ \E c \in CallIds : ImageModule_list_concurrently(c, ImageModule_list_concurrent_args)
  \/ \E c \in CallIds : ContainerModule_list_concurrently(c, ContainerModule_list_concurrent_args)
  \/ \E c \in CallIds : Respond(c)
  \/ \E c \in CallIds : TransportFailure(c)
  \/ \E c \in CallIds : Then(c)
  \/ \E c \in CallIds : Catch(c)
  \/ \E c \in CallIds : Release(c)

ConcurrentSpec == Init /\ [][ConcurrentNext]_vars

(***************************************************************************)
(* Reading a request back: the path and the query parameters of the URL    *)
(* string axios received.  Keys and values stay urlencoded.                *)
(***************************************************************************)
\* The part of the URL before the query.
UrlPath(url) ==
  LET q == IndexFrom(url, "?", 1) IN IF q = 0 THEN url ELSE SubSeq(url, 1, q - 1)

\* The query of the URL, without the question mark.
UrlQuery(url) ==
  LET q == IndexFrom(url, "?", 1) IN IF q = 0 THEN "" ELSE SubSeq(url, q + 1, Len(url))

RECURSIVE SplitPairs(_, _)
\* The key=value pairs of query string q from index i on.
SplitPairs(q, i) ==
  IF i > Len(q) THEN <<>>
  ELSE LET amp == IndexFrom(q, "&", i)
           last == IF amp = 0 THEN Len(q) ELSE amp - 1
           eq == IndexFrom(SubSeq(q, i, last), "=", 1)
           pair == IF eq = 0 THEN [k |-> SubSeq(q, i, last), v |-> ""]
                   ELSE [k |-> SubSeq(q, i, i + eq - 2), v |-> SubSeq(q, i + eq, last)]
       IN <<pair>> \o SplitPairs(q, last + 2)

UrlParams(url) == SplitPairs(UrlQuery(url), 1)

\* The values the URL carries under a key, in order.  (No value of a query
\* string holds a bare &, which marks the other keys' places here.)
ParamValues(url, key) ==
  LET p == UrlParams(url)
  IN SelectSeq([i \in 1..Len(p) |-> IF p[i].k = Urlencoded(key) THEN p[i].v ELSE "&"], LAMBDA v : v # "&")

\* The keys the URL carries.
UrlKeys(url) == LET p == UrlParams(url) IN {p[i].k : i \in DOMAIN p}

\* The optional arguments of each function that stand for a query parameter,
\* each with the daemon's key for it.
QueryArgs(name) ==
  CASE name = "ImageModule.list" ->
         {<<"all", "all">>, <<"filters", "filters">>, <<"sharedSize", "sharedSize">>, <<"digests", "digests">>}
    [] name = "ImageModule.build" ->
         {<<"dockerfile", "dockerfile">>, <<"tags", "t">>, <<"extraHosts", "extrahosts">>,
          <<"remote", "remote">>, <<"quiet", "q">>, <<"noCache", "nocache">>,
          <<"cacheFrom", "cachefrom">>, <<"pull", "pull">>, <<"removeIntermediate", "rm">>,
          <<"forceRemoveIntermediate", "forcerm">>, <<"memoryLimit", "memory">>,
          <<"memorySwap", "memswap">>, <<"cpuShares", "cpushares">>, <<"cpuSetCpus", "cpusetcpus">>,
          <<"cpuPeriod", "cpuperiod">>, <<"cpuQuota", "cpuquota">>, <<"buildArgs", "buildargs">>,
          <<"shmSize", "shmsize">>, <<"squash", "squash">>, <<"labels", "labels">>,
          <<"networkMode", "networkmode">>, <<"platform", "platform">>, <<"target", "target">>,
          <<"outputs", "outputs">>}
    [] name = "ImageModule.buildPrune" ->
         {<<"keepStorage", "keep-storage">>, <<"all", "all">>, <<"filters", "filters">>}
    [] name = "ImageModule.create" ->
         {<<"fromImage", "fromImage">>, <<"fromSrc", "fromSrc">>, <<"repo", "repo">>, <<"tag", "tag">>,
          <<"message", "message">>, <<"changes", "changes">>, <<"platform", "platform">>}
    [] name = "ContainerModule.list" ->
         {<<"all", "all">>, <<"limit", "limit">>, <<"size", "size">>, <<"filters", "filters">>}
    [] name = "ContainerModule.create" -> {<<"name", "name">>, <<"platform", "platform">>}
    [] name = "ContainerModule.inspect" -> {<<"size", "size">>}
    [] name = "ContainerModule.top" -> {<<"psArgs", "ps_args">>}
    [] name = "ContainerModule.logs" ->
         {<<"follow", "follow">>, <<"stdout", "stdout">>, <<"stderr", "stderr">>, <<"since", "since">>,
          <<"until", "until">>, <<"timestamps", "timestamps">>, <<"tail", "tail">>}
    [] name \in {"ContainerModule.stop", "ContainerModule.restart"} -> {<<"timeout", "t">>}
    [] name = "ContainerModule.kill" -> {<<"signal", "signal">>}
    [] OTHER -> {}

\* The string a supplied argument is to appear as: booleans and numbers by
\* string conversion, maps and arrays as compact JSON, strings as they are.
Serialized(v) ==
  CASE v.t \in {"boolean", "number", "string"} -> toString(v)
    [] OTHER -> JSONStringify(v)

\* The calls that have handed a request to axios, and that request's URL.
HasRequest(c) == pc[c] = "returned" /\ Len(requests[c]) >= 1
RequestUrl(c) == requests[c][1].url

(***************************************************************************)
(* C1.  ImageModule.create fails with the local validation error whenever  *)
(* binary and fromSrc are both supplied or both left undefined, whatever   *)
(* the other arguments, and no request is handed to axios in that case.    *)
(***************************************************************************)
C1_CreateModeValidation ==
  \A c \in CallIds :
    (op[c] = "ImageModule.create"
       /\ ((args[c].binary = undefined) <=> (args[c].fromSrc = undefined)))
    => /\ pc[c] = "thrown"
       /\ thrown[c] = JS("Error", "Create mode is not clear. Use fromSrc or binary")
       /\ requests[c] = <<>>
       /\ axiosPromise[c].state = "none"

\* A create call with both binary and fromSrc supplied has failed.
C1_Witness ==
  \E c \in CallIds :
    /\ op[c] = "ImageModule.create" /\ pc[c] = "thrown"
    /\ args[c].binary # undefined /\ args[c].fromSrc # undefined /\ args[c].repo # undefined

(***************************************************************************)
(* C2.  Whenever the daemon answers with a status >= 400 and a JSON error  *)
(* body, the promise the operation returned rejects with the object that   *)
(* body parses to, for every operation, logs and backup included.          *)
(***************************************************************************)
C2_RejectsWithErrorBody ==
  \A c \in CallIds :
    (/\ pc[c] = "returned"
     /\ axiosPromise[c].state = "rejected"
     /\ axiosPromise[c].value.hasResponse
     /\ axiosPromise[c].value.status >= 400
     /\ IsJSON(axiosPromise[c].value.data.text)
     /\ IsSettled(returned[c]))
    => returned[c] = Rejected(JS("json", axiosPromise[c].value.data.text))

(***************************************************************************)
(* C3.  As claimed: for every operation and every optional argument left   *)
(* undefined, the URL of the request has no query parameter under that     *)
(* argument's key.                                                         *)
(***************************************************************************)
C3_UnsetArgumentsAbsent ==
  \A c \in CallIds :
    HasRequest(c) =>
      LET keys == UrlKeys(RequestUrl(c))
      IN \A q \in QueryArgs(op[c]) :
           args[c][q[1]] = undefined => Urlencoded(q[2]) \notin keys

(***************************************************************************)
(* C3, amended.  For every operation and every optional argument left      *)
(* undefined, the URL of the request has no query parameter under that     *)
(* argument's key, except fromSrc of ImageModule.create: a create call     *)
(* without fromSrc (so with binary) carries fromSrc=-, once.               *)
(***************************************************************************)
C3_UnsetArgumentsAbsentButFromSrc ==
  \A c \in CallIds :
    HasRequest(c) =>
      LET keys == UrlKeys(RequestUrl(c))
      IN \A q \in QueryArgs(op[c]) :
           args[c][q[1]] = undefined =>
             IF op[c] = "ImageModule.create" /\ q[1] = "fromSrc"
             THEN ParamValues(RequestUrl(c), "fromSrc") = <<"-">>
             ELSE Urlencoded(q[2]) \notin keys

\* A create call with binary and without fromSrc has issued its request, and
\* so has a call with several optional arguments left undefined.
C3_Witness ==
  \E c \in CallIds :
    /\ HasRequest(c)
    /\ op[c] = "ImageModule.create"
    /\ args[c].binary # undefined /\ args[c].fromSrc = undefined /\ args[c].tag = undefined

(***************************************************************************)
(* C4.  For every operation and every optional argument the caller         *)
(* supplies, the URL of the request has the query parameter under the      *)
(* daemon's key with the serialized value: false as key=false, 0 as key=0, *)
(* maps and arrays as compact JSON.  (The tags of ImageModule.build, one   *)
(* parameter per element, are left to C15.)                                *)
(***************************************************************************)
C4_SuppliedArgumentsPresent ==
  \A c \in CallIds :
    HasRequest(c) =>
      LET p == UrlParams(RequestUrl(c))
          pairs == {p[i] : i \in DOMAIN p}
      IN \A q \in QueryArgs(op[c]) \ {<<"tags", "t">>} :
           args[c][q[1]] # undefined =>
             [k |-> Urlencoded(q[2]), v |-> Urlencoded(Serialized(args[c][q[1]]))] \in pairs

(***************************************************************************)
(* C5.  Every request of ContainerModule.stats is one GET to               *)
(* {url}/containers/{id}/stats whose query carries stream=false and        *)
(* one-shot=true and no other value for either key.                        *)
(***************************************************************************)
C5_StatsOneShot ==
  \A c \in CallIds :
    (op[c] = "ContainerModule.stats") =>
      /\ Len(requests[c]) = 1
      /\ requests[c][1].method = "GET"
      /\ UrlPath(RequestUrl(c)) = args[c].url.s \o "/containers/" \o args[c].id.s \o "/stats"
      /\ ParamValues(RequestUrl(c), "stream") = <<"false">>
      /\ ParamValues(RequestUrl(c), "one-shot") = <<"true">>

\* A stats call has issued its request.
C5_Witness ==
  \E c \in CallIds : op[c] = "ContainerModule.stats" /\ HasRequest(c) /\ args[c].id = Str("web_1")

(***************************************************************************)
(* C6.  Every call that passed local validation (it returned a promise)    *)
(* has handed exactly one request to axios, at every moment from its       *)
(* return on: while the exchange runs, after it succeeded and after it     *)
(* failed.                                                                 *)
(***************************************************************************)
C6_ExactlyOneRequest ==
  \A c \in CallIds : pc[c] = "returned" => Len(requests[c]) = 1

\* A call whose exchange failed has rejected, with one request issued.
C6_Witness ==
  \E c \in CallIds :
    /\ pc[c] = "returned" /\ returned[c].state = "rejected"
    /\ ~axiosPromise[c].value.hasResponse
    /\ Len(requests[c]) = 1

(***************************************************************************)
(* C7.  The promise a call returns is settled at most once and, once       *)
(* settled, keeps its state and value until the caller lets go of it; it   *)
(* is settled only when the exchange has completed (axios has settled);    *)
(* and once the exchange has completed it is eventually settled.           *)
(***************************************************************************)
C7_SettledOnceAfterExchange ==
  /\ [](\A c \in CallIds :
          /\ settles[c] <= 1
          /\ IsSettled(returned[c]) => (settles[c] = 1 /\ IsSettled(axiosPromise[c])))
  /\ [][\A c \in CallIds :
          IsSettled(returned[c]) => (returned'[c] = returned[c] \/ pc'[c] = "idle")]_vars
  /\ \A c \in CallIds : IsSettled(axiosPromise[c]) ~> IsSettled(returned[c])

\* A call's promise has been settled, once, after a completed exchange.
C7_Witness ==
  \E c \in CallIds :
    /\ IsSettled(axiosPromise[c]) /\ returned[c].state = "fulfilled" /\ settles[c] = 1

(***************************************************************************)
(* C8.  No operation fails by raising an exception out of the call: every  *)
(* failure, the validation failure of ImageModule.create included, is a    *)
(* rejection of the returned promise.                                      *)
(***************************************************************************)
C8_NoSynchronousThrow ==
  \A c \in CallIds : pc[c] # "thrown"

(***************************************************************************)
(* C9.  When the exchange fails with no response from the daemon, the      *)
(* returned promise rejects with the error axios produced, unchanged.      *)
(***************************************************************************)
C9_TransportErrorUnchanged ==
  \A c \in CallIds :
    (/\ pc[c] = "returned"
     /\ axiosPromise[c].state = "rejected"
     /\ ~axiosPromise[c].value.hasResponse
     /\ IsSettled(returned[c]))
    => returned[c] = Rejected(axiosPromise[c].value)

(***************************************************************************)
(* C10.  On a 2xx exchange every operation that has a response payload     *)
(* resolves with the decoded response body: ContainerModule.prune as well  *)
(* as list, create, inspect, top, changes, stats, update, logs, backup and *)
(* ImageModule.list, buildPrune and inspect.                               *)
(***************************************************************************)
PayloadOperations ==
  {"ImageModule.list", "ImageModule.buildPrune", "ImageModule.inspect", "ContainerModule.list",
   "ContainerModule.create", "ContainerModule.inspect", "ContainerModule.top",
   "ContainerModule.logs", "ContainerModule.changes", "ContainerModule.backup",
   "ContainerModule.stats", "ContainerModule.update", "ContainerModule.prune"}

C10_ResolvesWithBody ==
  \A c \in CallIds :
    (/\ op[c] \in PayloadOperations
     /\ axiosPromise[c].state = "fulfilled"
     /\ IsSettled(returned[c]))
    => returned[c] = Fulfilled(DataValue(axiosPromise[c].value.data))

(***************************************************************************)
(* C11.  ContainerModule.start, stop, restart, kill, pause and rename each *)
(* issue one POST to {url}/containers/{id}/<action> with no request body,  *)
(* and on every 2xx response the returned promise resolves to undefined,   *)
(* whatever body the daemon sent.                                          *)
(***************************************************************************)
StateActions ==
  {"ContainerModule.start", "ContainerModule.stop", "ContainerModule.restart",
   "ContainerModule.kill", "ContainerModule.pause", "ContainerModule.rename"}

\* The last path segment the daemon names the action of function `name` by.
ActionSegment(name) ==
  CASE name = "ContainerModule.start" -> "start"
    [] name = "ContainerModule.stop" -> "stop"
    [] name = "ContainerModule.restart" -> "restart"
    [] name = "ContainerModule.kill" -> "kill"
    [] name = "ContainerModule.pause" -> "pause"
    [] name = "ContainerModule.rename" -> "rename"

C11_StateActionsResolveUndefined ==
  \A c \in CallIds :
    (op[c] \in StateActions /\ pc[c] = "returned") =>
      /\ Len(requests[c]) = 1
      /\ requests[c][1].method = "POST"
      /\ UrlPath(RequestUrl(c))
           = args[c].url.s \o "/containers/" \o args[c].id.s \o "/" \o ActionSegment(op[c])
      /\ requests[c][1].body = undefined
      /\ (axiosPromise[c].state = "fulfilled" /\ IsSettled(returned[c]))
           => returned[c] = Fulfilled(JSUndefined)

\* A start call answered 200 with a non-empty body has resolved.
C11_Witness ==
  \E c \in CallIds :
    /\ op[c] = "ContainerModule.start" /\ pc[c] = "returned"
    /\ axiosPromise[c].state = "fulfilled"
    /\ axiosPromise[c].value.status = 200
    /\ axiosPromise[c].value.data.text # ""
    /\ returned[c].state = "fulfilled"

(***************************************************************************)
(* C12.  The request of ContainerModule.create is a POST to                *)
(* {url}/containers/create whose body is the config the caller passed,     *)
(* field for field and in its JSON form, whatever name and platform are;   *)
(* name and platform show in the query string only.                        *)
(***************************************************************************)
C12_CreateBodyIsConfig ==
  \A c \in CallIds :
    (op[c] = "ContainerModule.create" /\ pc[c] = "returned") =>
      /\ Len(requests[c]) = 1
      /\ requests[c][1].method = "POST"
      /\ UrlPath(RequestUrl(c)) = args[c].url.s \o "/containers/create"
      /\ requests[c][1].body = args[c].containerConfig
      /\ JSONStringify(requests[c][1].body) = JSONStringify(args[c].containerConfig)
      /\ UrlKeys(RequestUrl(c)) \subseteq {"name", "platform"}

\* A create call with a name, a platform and a config with an empty field has
\* issued its request.
C12_Witness ==
  \E c \in CallIds :
    /\ op[c] = "ContainerModule.create" /\ HasRequest(c)
    /\ args[c].name # undefined /\ args[c].platform # undefined
    /\ \E i \in DOMAIN args[c].containerConfig.d : args[c].containerConfig.d[i].v = ""
    /\ UrlKeys(RequestUrl(c)) = {"name", "platform"}

(***************************************************************************)
(* C13.  The request of ContainerModule.list is a GET to                   *)
(* {url}/containers/json whose query string consists of exactly the        *)
(* parameters the caller supplied, in the order all, limit, size, filters, *)
(* each with its value (filters as JSON), percent-encoded.                 *)
(***************************************************************************)
\* The parameter a supplied argument is to appear as; none for one left out.
SuppliedParam(a, arg, key) ==
  IF a[arg] # undefined
  THEN <<[k |-> Urlencoded(key), v |-> Urlencoded(Serialized(a[arg]))]>>
  ELSE <<>>

C13_ListQueryExactlySupplied ==
  \A c \in CallIds :
    (op[c] = "ContainerModule.list" /\ pc[c] = "returned") =>
      /\ Len(requests[c]) = 1
      /\ requests[c][1].method = "GET"
      /\ UrlPath(RequestUrl(c)) = args[c].url.s \o "/containers/json"
      /\ UrlParams(RequestUrl(c))
           = SuppliedParam(args[c], "all", "all") \o SuppliedParam(args[c], "limit", "limit")
               \o SuppliedParam(args[c], "size", "size")
               \o SuppliedParam(args[c], "filters", "filters")

(***************************************************************************)
(* C14.  With any number of calls in flight and their exchanges completing *)
(* in any order: the request of a call is the one built from the call's    *)
(* own arguments, the exchange of a call ends with an answer to the call's *)
(* own request, the call's outcome is what its own chain makes of that     *)
(* answer, and no step changes anything of two calls at once.              *)
(***************************************************************************)
\* The request function `name` builds from arguments a.
OwnRequest(name, a) ==
  CASE name = "ImageModule.list" -> ImageModule_list_request(a)
    [] name = "ContainerModule.list" -> ContainerModule_list_request(a)

\* The ways the exchange of a request of function `name` can end.
ExchangeOutcomes(name, req) ==
  {AxiosSettle(req, r) : r \in DaemonResponses(name)}
    \cup {Rejected(AxiosError(code, FALSE, 0, NoData)) : code \in TransportErrors}

\* What the chain of function `name` makes of a settled axios promise.
ChainOutcome(name, p) ==
  IF p.state = "fulfilled" THEN Fulfilled(onFulfilled(name, p.value))
  ELSE Rejected(onRejected(p.value))

\* Everything of call c.
Slot(c) ==
  <<pc[c], op[c], args[c], requests[c], axiosPromise[c], thenPromise[c], returned[c],
    thrown[c], settles[c]>>

C14_CallsDoNotInterfere ==
  /\ [](\A c \in CallIds :
          pc[c] = "returned" =>
            /\ requests[c] = <<OwnRequest(op[c], args[c])>>
            /\ IsSettled(axiosPromise[c])
                 => axiosPromise[c] \in ExchangeOutcomes(op[c], OwnRequest(op[c], args[c]))
            /\ IsSettled(returned[c]) => returned[c] = ChainOutcome(op[c], axiosPromise[c]))
  /\ [][\A c, d \in CallIds : c # d => (Slot(c)' = Slot(c) \/ Slot(d)' = Slot(d))]_vars

\* Two calls of different functions are in flight together; one has its
\* outcome while the exchange of the other is still running.
C14_Witness ==
  \E c, d \in CallIds :
    /\ pc[c] = "returned" /\ pc[d] = "returned"
    /\ op[c] = "ImageModule.list" /\ op[d] = "ContainerModule.list"
    /\ returned[c] = Fulfilled(JS("json", Payload("ImageModule.list")))
    /\ axiosPromise[d].state = "pending"

(***************************************************************************)
(* C15.  The request of ImageModule.build carries, for every build option  *)
(* the caller supplied, exactly one query parameter under the option's API *)
(* key with the option's value, except tags, which gives one t parameter   *)
(* per tag in list order; and it carries no parameter under any other key. *)
(* (The keys of the options are pairwise different, so no two options      *)
(* share a key.)                                                           *)
(***************************************************************************)
\* The values the URL is to carry for a supplied option.
BuildParamValues(arg, v) ==
  IF arg = "tags" THEN [i \in 1..Len(v.a) |-> Urlencoded(v.a[i])]
  ELSE <<Urlencoded(Serialized(v))>>

C15_BuildOptionsOneToOne ==
  /\ \A p, q \in QueryArgs("ImageModule.build") : p[2] = q[2] => p = q
  /\ \A c \in CallIds :
       (op[c] = "ImageModule.build" /\ pc[c] = "returned") =>
         /\ \A q \in QueryArgs(op[c]) :
              args[c][q[1]] # undefined
                => ParamValues(RequestUrl(c), q[2]) = BuildParamValues(q[1], args[c][q[1]])
         /\ UrlKeys(RequestUrl(c))
              \subseteq {Urlencoded(q[2]) : q \in {r \in QueryArgs(op[c]) : args[c][r[1]] # undefined}}

(***************************************************************************)
(* C16.  No request of ImageModule.create carries both a fromImage and a   *)
(* fromSrc query parameter.                                                *)
(***************************************************************************)
C16_PullAndImportApart ==
  \A c \in CallIds :
    (op[c] = "ImageModule.create" /\ HasRequest(c)) =>
      ~({Urlencoded("fromImage"), Urlencoded("fromSrc")} \subseteq UrlKeys(RequestUrl(c)))

(***************************************************************************)
(* C17.  The request of ImageModule.build goes out with the bytes of the   *)
(* supplied buffer as its body, byte for byte, and with a Content-Length   *)
(* equal to the number of bytes of the body sent, for every buffer, those  *)
(* that are not valid text included; its Content-Type is the supplied      *)
(* contentType, or application/x-tar when none is supplied.                *)
(***************************************************************************)
\* The bytes the body of a build request goes out as.
BuildBodySent(req) == Utf8Encode(req.body.y, 1)

C17_BuildBodyRaw ==
  \A c \in CallIds :
    (op[c] = "ImageModule.build" /\ HasRequest(c)) =>
      /\ BuildBodySent(requests[c][1]) = args[c].binary.y
      /\ requests[c][1].headers.ContentLength = Num(Len(BuildBodySent(requests[c][1])))
      /\ requests[c][1].headers.ContentType
           = (IF args[c].contentType # undefined THEN args[c].contentType
              ELSE Str("application/x-tar"))

=============================================================================
